---- MODULE Spec2Model ----
(***************************************************************************)
(* Model of the AI routine builder:                                        *)
(*   - the generation request handler (supabase/functions/generate)        *)
(*   - the RoutineEditor client component (src/components/RoutineEditor)   *)
(*                                                                         *)
(* Text is modelled as a sequence of lexical tokens.  Each token stands    *)
(* for a run of characters that the regular expressions of the handler     *)
(* and the JSON grammar treat as a unit.  No concatenation of two tokens   *)
(* forms a different token or a longer JSON literal.                       *)
(***************************************************************************)
EXTENDS Integers, Sequences, FiniteSets, TLC

VARIABLES
  \* ---- request handler (one invocation at a time, no state kept between)
  hpc,               \* "idle", "fetching" (suspended in await fetch), "responded"
  method,            \* req.method of the invocation
  geminiApiKey,      \* whether GEMINI_API_KEY is configured in the environment
  calls,             \* outbound provider calls made by the invocation
  generatedContent,  \* data.choices[0]?.message?.content (<<>> when falsy)
  parseArg,          \* the text handed to JSON.parse by the invocation
  error,             \* message of the error caught by the outer catch
  response,          \* the Response the invocation returned
  \* ---- RoutineEditor component
  userInput,
  imageFile,
  generatedRoutine,
  editableRoutine,
  isGenerating,
  isEditing,
  localStorage,      \* the "aiRoutine" slot
  gpc,               \* position of the pending generateRoutine call
  toast,             \* title of the last notification shown
  savedDisplay       \* history: the Routine displayed when the last Save succeeded

hvars == <<hpc, method, geminiApiKey, calls, generatedContent, parseArg, error, response>>
cvars == <<userInput, imageFile, generatedRoutine, editableRoutine, isGenerating,
           isEditing, localStorage, gpc, toast, savedDisplay>>
vars == <<hvars, cvars>>

\* ------------------------------------------------------------------ bounds
\* Longest provider text (in tokens) the handler is run on.
MaxLen == 5

\* ------------------------------------------------------------------ tokens
\* An opening code fence with the json label (three backquotes, then json)
FenceJson == "FENCE-json"
\* A bare code fence (three backquotes)
Fence == "FENCE"
LBrace == "{"
RBrace == "}"
Ws == " "
True == "true"
Null == "null"
Prose == "abc"
\* The member list (title, description, steps) of a Routine
MembersA == "title:A,description:A,steps:A"
\* The member list of the fallback Routine of the handler
MembersFallback == "title:Custom Routine,description:..,steps:[1]"

HandlerAlphabet ==
  {FenceJson, Fence, LBrace, RBrace, Ws, True, Null, Prose, MembersA}

Texts(alphabet, n) == UNION {[1..k -> alphabet] : k \in 0..n}

Min(S) == CHOOSE x \in S : \A y \in S : x <= y
Max(S) == CHOOSE x \in S : \A y \in S : x >= y

\* ------------------------------------------------------------- JSON values
\* A parsed JavaScript value.  members names the member list of an object.
JValue(t, m) == [type |-> t, members |-> m]
SyntaxError == JValue("SyntaxError", "-")
JNull == JValue("null", "-")
JTrue == JValue("boolean", "-")
JObject(m) == JValue("object", m)
EmptyObject == JObject("")
RoutineA == JObject(MembersA)

\* The literal of lines 103-114.
FallbackRoutine == JObject(MembersFallback)

\* interface GeneratedRoutine / the Routine data model
IsRoutine(v) == v.type = "object" /\ v.members \in {MembersA, MembersFallback}

\* Leading and trailing insignificant whitespace
RECURSIVE TrimLeft(_)
TrimLeft(s) == IF s # <<>> /\ Head(s) = Ws THEN TrimLeft(Tail(s)) ELSE s

RECURSIVE TrimRight(_)
TrimRight(s) ==
  IF s # <<>> /\ s[Len(s)] = Ws THEN TrimRight(SubSeq(s, 1, Len(s) - 1)) ELSE s

Trim(s) == TrimLeft(TrimRight(s))

\* JSON.parse: the value of a JSON text, or SyntaxError (the exception)
JSONparse(s) ==
  LET t == Trim(s) IN
  IF t = <<True>> THEN JTrue
  ELSE IF t = <<Null>> THEN JNull
  ELSE IF Len(t) >= 2 /\ t[1] = LBrace /\ t[Len(t)] = RBrace
    THEN LET inner == Trim(SubSeq(t, 2, Len(t) - 1)) IN
         IF inner = <<>> THEN EmptyObject
         ELSE IF inner \in {<<MembersA>>, <<MembersFallback>>}
           THEN JObject(inner[1])
         ELSE SyntaxError
  ELSE SyntaxError

\* Mutant of JSONstringify: an object stored through its string conversion
JSONstringifyAsString(v) ==
  IF v.type = "boolean" THEN <<True>>
  ELSE IF v.type = "null" THEN <<Null>>
  ELSE <<Prose>>

\* JSON.stringify(v): compact
JSONstringify(v) ==
  IF v.type = "boolean" THEN <<True>>
  ELSE IF v.type = "null" THEN <<Null>>
  ELSE IF v.members = "" THEN <<LBrace, RBrace>>
  ELSE <<LBrace, v.members, RBrace>>

\* JSON.stringify(v, null, 2): indented
JSONstringifyIndent(v) ==
  IF v.type = "object" /\ v.members # ""
    THEN <<LBrace, Ws, v.members, Ws, RBrace>>
    ELSE JSONstringify(v)

\* ------------------------------------------------- handler: JSON extraction
NoMatch == [matched |-> FALSE, whole |-> <<>>, group |-> <<>>]

\* generatedContent.match(fence regex): FenceJson \s* ([\s\S]*?) \s* Fence
\* leftmost opener that has a closing fence; lazy group ends at the first
\* closing fence, which may be the first three characters of another opener
MatchFence(s) ==
  LET closers(i) == {j \in (i + 1)..Len(s) : s[j] \in {Fence, FenceJson}}
      starts == {i \in 1..Len(s) : s[i] = FenceJson /\ closers(i) # {}}
  IN IF starts = {} THEN NoMatch
     ELSE LET i == Min(starts)
              j == Min(closers(i))
          IN [matched |-> TRUE,
              whole |-> SubSeq(s, i, j - 1) \o <<Fence>>,
              group |-> Trim(SubSeq(s, i + 1, j - 1))]

\* generatedContent.match(brace regex): leftmost LBrace, greedy to the last RBrace
\* Mutant of MatchBraceEnd: a lazy quantifier, ending at the nearest brace
MatchBraceEndLazy(s, a) == Min({b \in (a + 1)..Len(s) : s[b] = RBrace})

MatchBraceEnd(s, a) == Max({b \in (a + 1)..Len(s) : s[b] = RBrace})

MatchBrace(s) ==
  LET starts == {a \in 1..Len(s) :
                   s[a] = LBrace /\ \E b \in (a + 1)..Len(s) : s[b] = RBrace}
  IN IF starts = {} THEN NoMatch
     ELSE LET a == Min(starts)
          IN [matched |-> TRUE,
              whole |-> SubSeq(s, a, MatchBraceEnd(s, a)),
              group |-> <<>>]

\* const jsonMatch = match(fence) || match(brace)
jsonMatch(s) == IF MatchFence(s).matched THEN MatchFence(s) ELSE MatchBrace(s)

\* The argument of JSON.parse: jsonMatch[1] || jsonMatch[0], else the text
ParseInput(s) ==
  LET m == jsonMatch(s) IN
  IF m.matched
    THEN (IF m.group # <<>> THEN m.group ELSE m.whole)
    ELSE s

\* try { routineData = JSON.parse(..) } catch { routineData = fallback }
routineData(s) ==
  LET v == JSONparse(ParseInput(s)) IN
  IF v = SyntaxError THEN FallbackRoutine ELSE v

\* ---------------------------------------------------------- handler: steps
NoRoutine == JValue("none", "-")
NoResponse == [status |-> 0, body |-> "", routine |-> NoRoutine, message |-> ""]

\* new Response('ok', { headers: corsHeaders })
PreflightResponse ==
  [status |-> 200, body |-> "ok", routine |-> NoRoutine, message |-> ""]

\* new Response(JSON.stringify({ routine: routineData }), { status: 200 })
RoutineResponse(v) ==
  [status |-> 200, body |-> "routine", routine |-> v, message |-> ""]

\* Mutant of ErrorResponse: a hard failure answered like a parse failure
ErrorResponseAsFallback(msg) ==
  [status |-> 200, body |-> "routine", routine |-> FallbackRoutine, message |-> ""]

\* new Response(JSON.stringify({ error, message: error.message }), { status: 500 })
ErrorResponse(msg) ==
  [status |-> 500, body |-> "error", routine |-> NoRoutine, message |-> msg]

HandlerInit ==
  /\ hpc = "idle"
  /\ method = ""
  /\ geminiApiKey \in BOOLEAN
  /\ calls = 0
  /\ generatedContent = <<>>
  /\ parseArg = <<>>
  /\ error = ""
  /\ response = NoResponse

\* catch (error) { return new Response(.., { status: 500 }) }
Catch(msg) ==
  /\ error' = msg
  /\ response' = ErrorResponse(msg)
  /\ hpc' = "responded"

\* The handler from its entry to its first suspension (await fetch) or return
Serve(m, bodyIsJson) ==
  /\ UNCHANGED cvars
  /\ hpc = "idle"
  /\ method' = m
  /\ IF m = "OPTIONS"
       THEN /\ response' = PreflightResponse
            /\ hpc' = "responded"
            /\ UNCHANGED <<calls, error>>
     ELSE IF ~bodyIsJson
       THEN Catch("Unexpected token in JSON") /\ UNCHANGED calls
     ELSE IF ~geminiApiKey
       THEN Catch("GEMINI_API_KEY is not configured") /\ UNCHANGED calls
     ELSE /\ hpc' = "fetching"
          /\ calls' = calls + 1
          /\ UNCHANGED <<error, response>>
  /\ UNCHANGED <<geminiApiKey, generatedContent, parseArg>>

\* await fetch(..) rejects: transport failure
FetchRejects ==
  /\ UNCHANGED cvars
  /\ hpc = "fetching"
  /\ Catch("error sending request")
  /\ UNCHANGED <<method, geminiApiKey, calls, generatedContent, parseArg>>

\* if (!response.ok) throw
FetchNotOk ==
  /\ UNCHANGED cvars
  /\ hpc = "fetching"
  /\ Catch("Gemini API request failed")
  /\ UNCHANGED <<method, geminiApiKey, calls, generatedContent, parseArg>>

\* response.ok, but the body is no JSON, has no choices, or no (or empty) content
FetchNoContent(why) ==
  /\ UNCHANGED cvars
  /\ hpc = "fetching"
  /\ Catch(why)
  /\ UNCHANGED <<method, geminiApiKey, calls, generatedContent, parseArg>>

NoContentErrors ==
  {"Unexpected end of JSON input",
   "Cannot read properties of undefined",
   "No content generated from Gemini API"}

\* Assistant texts the provider may return
ProviderTexts == Texts(HandlerAlphabet, MaxLen) \ {<<>>}

\* response.ok with non-empty content: extract, parse, respond 200
FetchContent ==
  /\ UNCHANGED cvars
  /\ hpc = "fetching"
  /\ \E text \in ProviderTexts :
       /\ generatedContent' = text
       /\ parseArg' = ParseInput(text)
       /\ response' = RoutineResponse(routineData(text))
  /\ hpc' = "responded"
  /\ UNCHANGED <<method, geminiApiKey, calls, error>>

\* The invocation is over; the handler keeps nothing for the next one
NextRequest ==
  /\ UNCHANGED cvars
  /\ hpc = "responded"
  /\ hpc' = "idle"
  /\ method' = ""
  /\ calls' = 0
  /\ generatedContent' = <<>>
  /\ parseArg' = <<>>
  /\ error' = ""
  /\ response' = NoResponse
  /\ UNCHANGED geminiApiKey

HandlerNext ==
  \/ \E m \in {"OPTIONS", "POST"}, b \in BOOLEAN : Serve(m, b)
  \/ FetchRejects
  \/ FetchNotOk
  \/ \E why \in NoContentErrors : FetchNoContent(why)
  \/ FetchContent
  \/ NextRequest

\* ------------------------------------------------------------ RoutineEditor
\* if (file.size > 5 * 1024 * 1024)
MaxImageBytes == 5242880

NoFile == [present |-> FALSE, size |-> 0]
File(n) == [present |-> TRUE, size |-> n]
Files == {File(MaxImageBytes), File(MaxImageBytes + 1)}

\* Texts the user types into the prompt box
UserInputs == {"", "  ", "morning energizer"}

\* userInput.trim()
StringTrim(u) == IF u = "  " THEN "" ELSE u

\* Values of data.routine in a 200 response of /api/generate
ResponseRoutines == {RoutineA, FallbackRoutine, EmptyObject, JTrue, JNull}

\* Texts the user leaves in the raw JSON textarea
EditTexts ==
  {<<>>, <<Prose>>, <<LBrace, MembersA>>, <<Null>>, <<True>>,
   <<LBrace, RBrace>>, <<LBrace, MembersA, RBrace>>,
   <<Ws, LBrace, Ws, MembersFallback, RBrace, Ws>>}

\* JavaScript truthiness of a parsed value: generatedRoutine && (..)
Truthy(v) == v.type # "null"

\* useState initial values, then the mount effect reading the storage slot
\* (getItem gives null for an absent item; null and "" are both skipped)
Mounted(slot) ==
  LET parsed == JSONparse(slot)
      loaded == slot # <<>> /\ parsed # SyntaxError
  IN [generatedRoutine |-> IF loaded THEN parsed ELSE JNull,
      editableRoutine |-> IF loaded THEN JSONstringifyIndent(parsed) ELSE <<>>]

ClientInit ==
  /\ localStorage \in {<<>>, <<Prose>>}
  /\ userInput = ""
  /\ imageFile = NoFile
  /\ generatedRoutine = Mounted(localStorage).generatedRoutine
  /\ editableRoutine = Mounted(localStorage).editableRoutine
  /\ isGenerating = FALSE
  /\ isEditing = FALSE
  /\ gpc = "idle"
  /\ toast = ""
  /\ savedDisplay = NoRoutine

\* The page is loaded again: a new component instance mounts
Mount ==
  /\ UNCHANGED hvars
  /\ userInput' = ""
  /\ imageFile' = NoFile
  /\ generatedRoutine' = Mounted(localStorage).generatedRoutine
  /\ editableRoutine' = Mounted(localStorage).editableRoutine
  /\ isGenerating' = FALSE
  /\ isEditing' = FALSE
  /\ gpc' = "idle"
  /\ toast' = ""
  /\ UNCHANGED <<localStorage, savedDisplay>>

\* onChange={(e) => setUserInput(e.target.value)}
SetUserInput(u) ==
  /\ UNCHANGED hvars
  /\ userInput' = u
  /\ UNCHANGED <<imageFile, generatedRoutine, editableRoutine, isGenerating,
                 isEditing, localStorage, gpc, toast, savedDisplay>>

handleImageUpload(file) ==
  /\ UNCHANGED hvars
  /\ IF ~file.present
       THEN UNCHANGED <<imageFile, toast>>
     ELSE IF file.size > MaxImageBytes
       THEN toast' = "File too large" /\ UNCHANGED imageFile
     ELSE imageFile' = file /\ toast' = "Image uploaded"
  /\ UNCHANGED <<userInput, generatedRoutine, editableRoutine, isGenerating,
                 isEditing, localStorage, gpc, savedDisplay>>

\* generateRoutine, from the click to its first suspension
\* (the button is disabled while isGenerating)
generateRoutine ==
  /\ UNCHANGED hvars
  /\ ~isGenerating
  /\ gpc = "idle"
  /\ IF StringTrim(userInput) = ""
       THEN /\ toast' = "Input required"
            /\ UNCHANGED <<isGenerating, gpc>>
       ELSE /\ isGenerating' = TRUE
            /\ gpc' = IF imageFile.present THEN "reading" ELSE "fetching"
            /\ UNCHANGED toast
  /\ UNCHANGED <<userInput, imageFile, generatedRoutine, editableRoutine,
                 isEditing, localStorage, savedDisplay>>

\* Mutant of GenerateCatch: a failure clears the displayed Routine
GenerateCatchClears ==
  /\ UNCHANGED hvars
  /\ toast' = "Generation failed"
  /\ isGenerating' = FALSE
  /\ gpc' = "idle"
  /\ generatedRoutine' = JNull
  /\ editableRoutine' = <<>>
  /\ UNCHANGED <<userInput, imageFile, isEditing, localStorage, savedDisplay>>

\* Mutant of GenerateCatch: no finally block
GenerateCatchNoFinally ==
  /\ UNCHANGED hvars
  /\ toast' = "Generation failed"
  /\ gpc' = "idle"
  /\ UNCHANGED <<userInput, imageFile, generatedRoutine, editableRoutine,
                 isGenerating, isEditing, localStorage, savedDisplay>>

\* catch { toast } finally { setIsGenerating(false) }
GenerateCatch ==
  /\ UNCHANGED hvars
  /\ toast' = "Generation failed"
  /\ isGenerating' = FALSE
  /\ gpc' = "idle"
  /\ UNCHANGED <<userInput, imageFile, generatedRoutine, editableRoutine,
                 isEditing, localStorage, savedDisplay>>

\* await convertImageToBase64(imageFile) resolves
ImageRead ==
  /\ UNCHANGED hvars
  /\ gpc = "reading"
  /\ gpc' = "fetching"
  /\ UNCHANGED <<userInput, imageFile, generatedRoutine, editableRoutine,
                 isGenerating, isEditing, localStorage, toast, savedDisplay>>

\* reader.onerror
ImageReadFails ==
  /\ gpc = "reading"
  /\ GenerateCatch

\* await fetch rejects, !response.ok, or response.json() rejects
GenerateFails ==
  /\ gpc = "fetching"
  /\ GenerateCatch

\* Mutant of GenerateSucceeds: the mirror is not refreshed
GenerateSucceedsNoMirror(v) ==
  /\ UNCHANGED hvars
  /\ gpc = "fetching"
  /\ generatedRoutine' = v
  /\ toast' = "Routine generated!"
  /\ isGenerating' = FALSE
  /\ gpc' = "idle"
  /\ UNCHANGED <<userInput, imageFile, editableRoutine, isEditing, localStorage,
                 savedDisplay>>

\* response.ok with body { routine: v }
GenerateSucceeds(v) ==
  /\ UNCHANGED hvars
  /\ gpc = "fetching"
  /\ generatedRoutine' = v
  /\ editableRoutine' = JSONstringifyIndent(v)
  /\ toast' = "Routine generated!"
  /\ isGenerating' = FALSE
  /\ gpc' = "idle"
  /\ UNCHANGED <<userInput, imageFile, isEditing, localStorage, savedDisplay>>

\* Mutant of routineToSave: the edited text is ignored
routineToSaveDisplayed == generatedRoutine

\* The value saveRoutine writes: JSON.parse(editableRoutine) or generatedRoutine
routineToSave ==
  IF isEditing THEN JSONparse(editableRoutine) ELSE generatedRoutine

\* The Save button is rendered only under generatedRoutine && (..)
saveRoutine ==
  /\ UNCHANGED hvars
  /\ Truthy(generatedRoutine)
  /\ IF routineToSave = SyntaxError
       THEN /\ toast' = "Save failed"
            /\ UNCHANGED <<localStorage, generatedRoutine, isEditing, savedDisplay>>
       ELSE /\ localStorage' = JSONstringify(routineToSave)
            /\ generatedRoutine' = routineToSave
            /\ isEditing' = FALSE
            /\ toast' = "Routine saved!"
            /\ savedDisplay' = routineToSave
  /\ UNCHANGED <<userInput, imageFile, editableRoutine, isGenerating, gpc>>

\* Mutant of handleEditToggle: edit mode is left before the text is parsed
handleEditToggleLeaves ==
  /\ UNCHANGED hvars
  /\ Truthy(generatedRoutine)
  /\ IF isEditing
       THEN /\ isEditing' = FALSE
            /\ IF JSONparse(editableRoutine) = SyntaxError
                 THEN toast' = "Invalid format" /\ UNCHANGED generatedRoutine
                 ELSE generatedRoutine' = JSONparse(editableRoutine) /\ UNCHANGED toast
       ELSE /\ isEditing' = TRUE
            /\ UNCHANGED <<generatedRoutine, toast>>
  /\ UNCHANGED <<userInput, imageFile, editableRoutine, isGenerating,
                 localStorage, gpc, savedDisplay>>

\* The Edit JSON / Preview button, rendered only under generatedRoutine && (..)
handleEditToggle ==
  /\ UNCHANGED hvars
  /\ Truthy(generatedRoutine)
  /\ IF isEditing
       THEN IF JSONparse(editableRoutine) = SyntaxError
              THEN /\ toast' = "Invalid format"
                   /\ UNCHANGED <<generatedRoutine, isEditing>>
              ELSE /\ generatedRoutine' = JSONparse(editableRoutine)
                   /\ isEditing' = FALSE
                   /\ UNCHANGED toast
       ELSE /\ isEditing' = TRUE
            /\ UNCHANGED <<generatedRoutine, toast>>
  /\ UNCHANGED <<userInput, imageFile, editableRoutine, isGenerating,
                 localStorage, gpc, savedDisplay>>

\* The textarea, rendered only while editing a displayed routine
setEditableRoutine(t) ==
  /\ UNCHANGED hvars
  /\ Truthy(generatedRoutine)
  /\ isEditing
  /\ editableRoutine' = t
  /\ UNCHANGED <<userInput, imageFile, generatedRoutine, isGenerating,
                 isEditing, localStorage, gpc, toast, savedDisplay>>

ClientNext ==
  \/ Mount
  \/ \E u \in UserInputs : SetUserInput(u)
  \/ \E f \in Files \cup {NoFile} : handleImageUpload(f)
  \/ generateRoutine
  \/ ImageRead
  \/ ImageReadFails
  \/ GenerateFails
  \/ \E v \in ResponseRoutines : GenerateSucceeds(v)
  \/ saveRoutine
  \/ handleEditToggle
  \/ \E t \in EditTexts : setEditableRoutine(t)

\* ---------------------------------------------------------- specifications
\* The client, with the handler at rest
Init == ClientInit /\ HandlerInit /\ geminiApiKey = TRUE
Next == ClientNext
Spec == Init /\ [][Next]_vars

\* The handler, with the client at rest
HInit == HandlerInit /\ ClientInit /\ localStorage = <<>>
HNext == HandlerNext
HandlerSpec == HInit /\ [][HNext]_vars

\* ------------------------------------------------ vocabulary of the claims
\* A text with its whitespace removed
Squeeze(s) == SelectSeq(s, LAMBDA t : t # Ws)

\* The JSON texts over the tokens, whitespace aside, with the values they denote
IsJsonText(s) ==
  Squeeze(s) \in {<<True>>, <<Null>>, <<LBrace, RBrace>>,
                  <<LBrace, MembersA, RBrace>>, <<LBrace, MembersFallback, RBrace>>}

ValueOf(s) ==
  CASE Squeeze(s) = <<True>> -> JTrue
    [] Squeeze(s) = <<Null>> -> JNull
    [] Squeeze(s) = <<LBrace, RBrace>> -> EmptyObject
    [] Squeeze(s) = <<LBrace, MembersA, RBrace>> -> RoutineA
    [] Squeeze(s) = <<LBrace, MembersFallback, RBrace>> -> FallbackRoutine

\* A fenced block labeled json: an opening fence with a fence after it
HasFencedBlock(s) ==
  \E i, j \in 1..Len(s) : i < j /\ s[i] = FenceJson /\ s[j] \in {Fence, FenceJson}
BlockOpen(s) == Min({i \in 1..Len(s) : s[i] = FenceJson})
BlockClose(s) ==
  Min({j \in (BlockOpen(s) + 1)..Len(s) : s[j] \in {Fence, FenceJson}})
BlockContent(s) == SubSeq(s, BlockOpen(s) + 1, BlockClose(s) - 1)
BlockText(s) == SubSeq(s, BlockOpen(s), BlockClose(s) - 1) \o <<Fence>>

\* A brace-delimited span: an opening brace with a closing brace after it
HasBraceSpan(s) ==
  \E a, b \in 1..Len(s) : a < b /\ s[a] = LBrace /\ s[b] = RBrace
FirstLBrace(s) == Min({a \in 1..Len(s) : s[a] = LBrace})
\* from the first opening brace to the nearest closing brace: the first object
ShortestSpan(s) ==
  SubSeq(s, FirstLBrace(s),
         Min({b \in (FirstLBrace(s) + 1)..Len(s) : s[b] = RBrace}))
\* from the first opening brace to the last closing brace of the text
LongestSpan(s) ==
  SubSeq(s, FirstLBrace(s), Max({b \in 1..Len(s) : s[b] = RBrace}))

Answered == hpc = "responded" /\ generatedContent # <<>>

\* ------------------------------------------------------ claims: the handler
\* C1 (as stated): when the provider returns non-empty text and either the
\* extracted candidate is not valid JSON or the text holds neither a fenced
\* json block nor a brace span, the response is 200 with the fallback Routine.
C1_FallbackWhenNothingParses ==
  Answered =>
    ((\/ ~IsJsonText(parseArg)
      \/ (~HasFencedBlock(generatedContent) /\ ~HasBraceSpan(generatedContent)))
       => response = RoutineResponse(FallbackRoutine))

\* C2: every hard failure of a non-OPTIONS invocation (bad request body,
\* missing credential, transport failure, non-success status, missing content)
\* is answered 500 with an error payload and no routine; a missing credential
\* makes no provider call, and no invocation makes more than one.
C2_HardFailureIs500 ==
  /\ calls \in {0, 1}
  /\ (hpc = "responded" /\ method = "POST" /\ generatedContent = <<>>) =>
       /\ response.status = 500
       /\ response.body = "error"
       /\ response.routine = NoRoutine
       /\ response.message = error
       /\ error # ""
  /\ (hpc = "responded" /\ method = "POST" /\ ~geminiApiKey) =>
       (calls = 0 /\ response.status = 500)
  /\ (hpc = "responded" /\ response.status = 500) => response.routine = NoRoutine

C2_Witness ==
  /\ hpc = "responded"
  /\ calls = 1
  /\ error = "Gemini API request failed"
  /\ response.status = 500

\* C3 (as stated): every 200 response to a POST carries a routine that has
\* the Routine shape; every other response to a POST is an error payload.
C3_OkResponseIsRoutine ==
  (hpc = "responded" /\ method = "POST") =>
    IF response.status = 200
      THEN response.body = "routine" /\ IsRoutine(response.routine)
      ELSE response.body = "error"

\* C4 (as stated): with a fenced json block the content of the block is
\* parsed; otherwise, with a brace span, the first span (the first object,
\* up to the nearest closing brace) is parsed.  Whitespace is not compared,
\* and a block without content is left aside.
C4_FirstSpanIsParsed ==
  Answered =>
    IF HasFencedBlock(generatedContent)
      THEN \/ Squeeze(BlockContent(generatedContent)) = <<>>
           \/ Squeeze(parseArg) = Squeeze(BlockContent(generatedContent))
    ELSE IF HasBraceSpan(generatedContent)
      THEN parseArg = ShortestSpan(generatedContent)
    ELSE TRUE

\* C4 (amended): with a fenced json block the content of the block, without
\* its surrounding whitespace, is parsed when it is not empty, and the whole
\* block with its fences when it is empty; otherwise, with a brace span, the
\* text from the first opening brace to the last closing brace is parsed;
\* otherwise the whole text is parsed.
C4_TwoStageExtraction ==
  Answered =>
    IF HasFencedBlock(generatedContent)
      THEN IF Squeeze(BlockContent(generatedContent)) # <<>>
             THEN /\ Squeeze(parseArg) = Squeeze(BlockContent(generatedContent))
                  /\ parseArg # <<>>
                  /\ parseArg[1] # Ws
                  /\ parseArg[Len(parseArg)] # Ws
             ELSE parseArg = BlockText(generatedContent)
    ELSE IF HasBraceSpan(generatedContent)
      THEN parseArg = LongestSpan(generatedContent)
    ELSE parseArg = generatedContent

\* two objects with prose between them: the parser gets all of it
C4_Witness ==
  /\ hpc = "responded"
  /\ generatedContent = <<LBrace, RBrace, Prose, LBrace, RBrace>>
  /\ parseArg = generatedContent
  /\ response.routine = FallbackRoutine

\* ------------------------------------------------------- claims: the client
\* Steps of the pending generateRoutine call, told by what they change
GenerateFailed == gpc # "idle" /\ gpc' = "idle" /\ toast' = "Generation failed"
GenerateSucceeded == gpc # "idle" /\ gpc' = "idle" /\ toast' = "Routine generated!"
GenerateAdvanced == gpc' # "idle" /\ gpc' # gpc

\* C5: a generateRoutine call that fails (image read, network, HTTP status)
\* leaves the displayed Routine, the raw-text mirror, the edit flag and the
\* storage slot as they are, and so do its steps before completion; one that
\* succeeds sets the Routine to a returned value and the mirror to that
\* value's indented serialization, leaving the edit flag and the slot alone.
C5_FailedGenerateKeepsState ==
  [][/\ (GenerateFailed \/ GenerateAdvanced) =>
          UNCHANGED <<generatedRoutine, editableRoutine, isEditing, localStorage>>
     /\ GenerateSucceeded =>
          /\ generatedRoutine' \in ResponseRoutines
          /\ IsJsonText(editableRoutine')
          /\ ValueOf(editableRoutine') = generatedRoutine'
          /\ UNCHANGED <<isEditing, localStorage>>]_vars

\* a failed generation with a Routine still on display
C5_Witness ==
  /\ toast = "Generation failed"
  /\ gpc = "idle"
  /\ generatedRoutine = RoutineA
  /\ IsJsonText(editableRoutine)

\* C6: generating is entered only by a Generate with non-empty trimmed input,
\* which is always possible when idle; every completion (success, failure,
\* image read failure) ends generating; nothing but a completion or a new
\* page load ends it (no timeout, no cancellation); with empty or
\* whitespace-only input no step enters generating.
C6_GeneratingLifecycle ==
  [][/\ isGenerating <=> gpc # "idle"
     /\ (gpc = "idle" /\ gpc' # "idle") =>
          (StringTrim(userInput) # "" /\ isGenerating' /\ toast' = toast)
     /\ (gpc = "idle" /\ StringTrim(userInput) = "") =>
          (gpc' = "idle" /\ ~isGenerating')
     /\ (gpc # "idle" /\ gpc' = "idle") => ~isGenerating'
     /\ (isGenerating /\ ~isGenerating') =>
          (GenerateFailed \/ GenerateSucceeded \/ Mount)
     /\ (gpc = "idle" /\ StringTrim(userInput) # "") =>
          ENABLED (generateRoutine /\ isGenerating')]_vars

\* a generation that went through the image read and completed
C6_Witness ==
  /\ ~isGenerating
  /\ gpc = "idle"
  /\ imageFile.present
  /\ toast = "Routine generated!"

\* C7: leaving edit mode with a mirror that is not valid JSON changes neither
\* the displayed Routine, the edit flag, the mirror nor the storage slot;
\* with valid JSON the displayed Routine becomes the value the mirror denotes
\* and edit mode is left.
C7_ToggleOutOfEditMode ==
  [][(handleEditToggle /\ isEditing) =>
       IF IsJsonText(editableRoutine)
         THEN /\ generatedRoutine' = ValueOf(editableRoutine)
              /\ ~isEditing'
              /\ UNCHANGED <<editableRoutine, localStorage>>
         ELSE /\ UNCHANGED <<generatedRoutine, isEditing, editableRoutine,
                             localStorage>>
              /\ toast' = "Invalid format"]_vars

\* a refused attempt to leave edit mode
C7_Witness ==
  /\ isEditing
  /\ toast = "Invalid format"
  /\ ~IsJsonText(editableRoutine)
  /\ Truthy(generatedRoutine)

C10_MirrorMatchesDisplay ==
  (~isEditing /\ generatedRoutine # JNull) =>
    (IsJsonText(editableRoutine) /\ ValueOf(editableRoutine) = generatedRoutine)

\* a hand-typed mirror, not the indented serialization, after leaving edit mode
C10_Witness ==
  /\ ~isEditing
  /\ generatedRoutine = FallbackRoutine
  /\ editableRoutine = <<Ws, LBrace, Ws, MembersFallback, RBrace, Ws>>

====
